---- MODULE Spec2Model ----
(***************************************************************************)
(* Model of the tree-inventory pipeline: scripts/unify_arbres.py (the      *)
(* Normalizer: CSV tables -> canonical records -> data/arbres.json) and    *)
(* scripts/import_arbres.py (the Loader: data/arbres.json -> MongoDB       *)
(* collection, delete_many then insert_many).                              *)
(*                                                                         *)
(* Representation.                                                         *)
(*  - A cell text is a sequence of one-character strings, so that strip,   *)
(*    lower, replace, split and float are computed character by character. *)
(*  - A missing cell (pandas NaN) is the one-element sequence NaN.         *)
(*  - A Python optional is None == <<>> or Some(x) == <<x>>.               *)
(*  - A float is an integer number of 1/Scale units (four decimals).       *)
(*  - A table (DataFrame) is [cols |-> set of headers, rows |-> sequence   *)
(*    of functions cols -> cell].                                          *)
(***************************************************************************)
EXTENDS Integers, Sequences, FiniteSets, TLC

VARIABLES
    paris_file,    \* data-raw/les-arbres.csv: None or Some(table)
    hds_file,      \* data-raw/arbres-remarquables-...csv: None or Some(table)
    out_dir,       \* whether the directory data/ exists
    out_file,      \* data/arbres.json: None or Some(sequence of records)
    collection,    \* the MongoDB collection: sequence of documents
    pc,            \* position of the running script
    df_paris,      \* unify main(): local df_paris
    df_hds,        \* unify main(): local df_hds
    all_records,   \* unify main(): local all_records
    arbres,        \* import main(): local arbres
    printed,       \* the count printed by the last successful run, None if none
    raised,        \* the exception that ended the last run, "" if none
    runs,          \* number of script runs started
    next_oid,      \* next ObjectId the driver generates
    csv_reads,     \* history: pd.read_csv calls issued by the current run
    db_ops,        \* history: storage operations issued by the current run
    fs_before,     \* history: <<out_dir, out_file>> when the current run started
    coll_before,   \* history: collection when the current run started
    loaded         \* history: None, or Some of what the last completed load
                   \* read and left: [R |-> records, bodies |-> contents]

vars == <<paris_file, hds_file, out_dir, out_file, collection, pc, df_paris,
          df_hds, all_records, arbres, printed, raised, runs, next_oid,
          csv_reads, db_ops, fs_before, coll_before, loaded>>

-----------------------------------------------------------------------------
(* Python values *)

None == <<>>

Some(x) == <<x>>

NaN == <<"NaN">>

notna(v) == v # NaN

-----------------------------------------------------------------------------
(* str methods, character by character *)

UpperLetters == <<"A","B","C","D","E","F","G","H","I","J","K","L","M",
                  "N","O","P","Q","R","S","T","U","V","W","X","Y","Z">>

LowerLetters == <<"a","b","c","d","e","f","g","h","i","j","k","l","m",
                  "n","o","p","q","r","s","t","u","v","w","x","y","z">>

LowerChar(c) ==
    IF \E i \in 1..Len(UpperLetters) : UpperLetters[i] = c
    THEN LowerLetters[CHOOSE i \in 1..Len(UpperLetters) : UpperLetters[i] = c]
    ELSE c

\* str.lower()
Lower(s) == [i \in 1..Len(s) |-> LowerChar(s[i])]

RECURSIVE LStrip(_)
LStrip(s) == IF s # <<>> /\ Head(s) = " " THEN LStrip(Tail(s)) ELSE s

RECURSIVE RStrip(_)
RStrip(s) ==
    IF s # <<>> /\ s[Len(s)] = " " THEN RStrip(SubSeq(s, 1, Len(s) - 1)) ELSE s

\* str.strip()
Strip(s) == RStrip(LStrip(s))

\* str.replace(",", ".")
ReplaceComma(s) == [i \in 1..Len(s) |-> IF s[i] = "," THEN "." ELSE s[i]]

\* sep in s
Contains(s, sep) == \E i \in 1..Len(s) : s[i] = sep

RECURSIVE Split(_, _)
\* str.split(sep): the parts between the occurrences of sep
Split(s, sep) ==
    IF ~Contains(s, sep) THEN <<s>>
    ELSE LET k == CHOOSE i \in 1..Len(s) :
                      s[i] = sep /\ \A j \in 1..(i - 1) : s[j] # sep
         IN  <<SubSeq(s, 1, k - 1)>> \o Split(SubSeq(s, k + 1, Len(s)), sep)

Digits == <<"0","1","2","3","4","5","6","7","8","9">>

IsDigit(c) == \E i \in 1..Len(Digits) : Digits[i] = c

DigitVal(c) == (CHOOSE i \in 1..Len(Digits) : Digits[i] = c) - 1

RECURSIVE DigitsVal(_)
DigitsVal(s) ==
    IF s = <<>> THEN 0
    ELSE 10 * DigitsVal(SubSeq(s, 1, Len(s) - 1)) + DigitVal(s[Len(s)])

RECURSIVE Pow10(_)
Pow10(n) == IF n = 0 THEN 1 ELSE 10 * Pow10(n - 1)

FracDigits == 4

\* one unit of a modelled float is 1/Scale
Scale == Pow10(FracDigits)

(* float(s) for decimal literals: surrounding blanks, an optional sign,     *)
(* digits with at most one '.', at least one digit.  Anything else raises   *)
(* ValueError, modelled as None.  Exponents, "inf", "nan" and '_' are not   *)
(* in the cell universe; literals carry at most FracDigits decimals.        *)
Float(s) ==
    LET t    == Strip(s)
        neg  == t # <<>> /\ Head(t) = "-"
        u    == IF t # <<>> /\ Head(t) \in {"-", "+"} THEN Tail(t) ELSE t
        ps   == Split(u, ".")
        ip   == ps[1]
        fp   == IF Len(ps) = 2 THEN ps[2] ELSE <<>>
        ok   == /\ Len(ps) <= 2
                /\ Len(ip) + Len(fp) >= 1
                /\ \A i \in 1..Len(ip) : IsDigit(ip[i])
                /\ \A i \in 1..Len(fp) : IsDigit(fp[i])
                /\ Len(fp) <= FracDigits
        mag  == DigitsVal(ip) * Scale + DigitsVal(fp) * Pow10(FracDigits - Len(fp))
    IN  IF ok THEN Some(IF neg THEN -mag ELSE mag) ELSE None

-----------------------------------------------------------------------------
(* guess_lat_lon *)

GeoCols == <<"geo_point_2d", "geo_point", "geopoint", "coordonnees", "coordinates">>

lat_cols == <<"lat", "latitude", "y_lat">>

lon_cols == <<"lon", "lng", "longitude", "x_lon">>

InLatRange(x) == -90 * Scale <= x /\ x <= 90 * Scale

InLonRange(x) == -180 * Scale <= x /\ x <= 180 * Scale

\* variant: the swapped reading is tested first
DisambiguateSwapFirst(a, b) ==
    IF InLatRange(b) /\ InLonRange(a) THEN Some(<<b, a>>)
    ELSE IF InLatRange(a) /\ InLonRange(b) THEN Some(<<a, b>>)
    ELSE None

\* variant: a pair that passes neither test is returned as written
DisambiguateAlways(a, b) ==
    IF InLatRange(a) /\ InLonRange(b) THEN Some(<<a, b>>)
    ELSE IF InLatRange(b) /\ InLonRange(a) THEN Some(<<b, a>>)
    ELSE Some(<<a, b>>)

\* the two range tests on the parsed components a, b: Some(<<lat, lon>>),
\* or None when neither test passes (the loop goes on)
Disambiguate(a, b) ==
    IF InLatRange(a) /\ InLonRange(b) THEN Some(<<a, b>>)
    ELSE IF InLatRange(b) /\ InLonRange(a) THEN Some(<<b, a>>)
    ELSE None

\* the body of the loop over the combined columns, for one non-null cell:
\* Some(<<lat, lon>>) when it returns, None when the loop goes on
CombinedPair(cell) ==
    LET val   == Strip(cell)
        parts == LET raw == Split(val, ",")
                 IN  [i \in 1..Len(raw) |-> Strip(raw[i])]
    IN  IF ~Contains(val, ",") \/ Len(parts) < 2 THEN None
        ELSE LET a == Float(parts[1])
                 b == Float(parts[2])
             IN  IF a = None \/ b = None THEN None
                 ELSE Disambiguate(a[1], b[1])

RECURSIVE FirstCombined(_, _)
\* the loop over the combined columns, in order
FirstCombined(row, cols) ==
    IF cols = <<>> THEN None
    ELSE LET col == Head(cols)
             got == IF col \in DOMAIN row /\ notna(row[col])
                    THEN CombinedPair(row[col]) ELSE None
         IN  IF got # None THEN got ELSE FirstCombined(row, Tail(cols))

RECURSIVE FirstFloat(_, _)
\* the loops over lat_cols / lon_cols: the first present, non-null column
\* whose value float() accepts; a ValueError passes on to the next column
FirstFloat(row, cols) ==
    IF cols = <<>> THEN None
    ELSE LET c   == Head(cols)
             got == IF c \in DOMAIN row /\ notna(row[c]) THEN Float(row[c]) ELSE None
         IN  IF got # None THEN got ELSE FirstFloat(row, Tail(cols))

\* [lat |-> optional float, lon |-> optional float]
guess_lat_lon(row) ==
    LET pair == FirstCombined(row, GeoCols)
    IN  IF pair # None
        THEN [lat |-> Some(pair[1][1]), lon |-> Some(pair[1][2])]
        ELSE [lat |-> FirstFloat(row, lat_cols), lon |-> FirstFloat(row, lon_cols)]

-----------------------------------------------------------------------------
(* normalize_columns *)

(* str(c).strip().lower() on a header.  Headers are atomic strings here,    *)
(* so the conversion is tabulated for the headers of the table universe     *)
(* that are not already trimmed lower case.                                 *)
NormalizeName(h) ==
    CASE h = "Remarquable" -> "remarquable"
      [] h = "HAUTEUR"     -> "hauteur"
      [] h = " lat "       -> "lat"
      [] OTHER             -> h

normalize_columns(df) ==
    LET cols == {NormalizeName(h) : h \in df.cols}
        orig(c) == CHOOSE h \in df.cols : NormalizeName(h) = c
    IN  [cols |-> cols,
         rows |-> [i \in 1..Len(df.rows) |-> [c \in cols |-> df.rows[i][orig(c)]]]]

-----------------------------------------------------------------------------
(* to_common_format *)

possible_city == <<"commune", "ville", "arrondissement", "localite">>

possible_addr == <<"adresse", "address", "lieu", "libellefrancais", "libelléfrancais">>

possible_species == <<"espece", "espèce", "species", "libellefrancais",
                      "libelléfrancais", "genre", "variete", "variété">>

possible_id == <<"id", "objectid", "gid", "identifiant", "id_arbre", "idbase">>

hauteur_cols == <<"hauteur", "hauteur_m", "hauteur(en m)", "hauteur_metre", "hauteurmetre">>

circonference_cols == <<"circonference", "circonférence", "circonference_cm",
                        "circonférence_cm">>

remarquable_cols == <<"remarquable", "est_remarquable", "classement", "statut">>

Affirmative == { <<"1">>, <<"t","r","u","e">>, <<"o","u","i">>,
                 <<"y","e","s">>, <<"v","r","a","i">> }

RECURSIVE FirstPresent(_, _)
\* the loops for id_source, commune, adresse: str() of the first present,
\* non-null candidate
FirstPresent(row, cols) ==
    IF cols = <<>> THEN None
    ELSE IF Head(cols) \in DOMAIN row /\ notna(row[Head(cols)])
         THEN Some(row[Head(cols)])
         ELSE FirstPresent(row, Tail(cols))

RECURSIVE SpeciesParts(_, _, _)
\* the loop that collects the distinct non-empty stripped species values
SpeciesParts(row, cols, parts) ==
    IF cols = <<>> THEN parts
    ELSE LET c   == Head(cols)
             add == IF c \in DOMAIN row /\ notna(row[c])
                    THEN LET val == Strip(row[c])
                         IN  IF val # <<>> /\ \A i \in 1..Len(parts) : parts[i] # val
                             THEN <<val>> ELSE <<>>
                    ELSE <<>>
         IN  SpeciesParts(row, Tail(cols), parts \o add)

RECURSIVE Join(_)
\* " / ".join(parts)
Join(parts) ==
    IF parts = <<>> THEN <<>>
    ELSE IF Len(parts) = 1 THEN parts[1]
    ELSE parts[1] \o <<" ", "/", " ">> \o Join(Tail(parts))

Espece(row) ==
    LET parts == SpeciesParts(row, possible_species, <<>>)
    IN  IF parts # <<>>
        THEN Some(Join(SubSeq(parts, 1, IF Len(parts) < 3 THEN Len(parts) ELSE 3)))
        ELSE None

\* variant: the first present, non-null candidate decides, parsed or not
FirstNumberNoFallThrough(row, cols) ==
    LET ks == {k \in 1..Len(cols) :
                  /\ cols[k] \in DOMAIN row /\ notna(row[cols[k]])
                  /\ \A j \in 1..(k - 1) :
                        ~(cols[j] \in DOMAIN row /\ notna(row[cols[j]]))}
    IN  IF ks = {} THEN None
        ELSE Float(ReplaceComma(row[cols[CHOOSE k \in ks : TRUE]]))

RECURSIVE FirstNumber(_, _)
\* the loops for hauteur_m and circonference_cm: float(str(v).replace(",", "."))
\* of the first present, non-null candidate that parses; the break sits inside
\* the try, so a ValueError passes on to the next candidate
FirstNumber(row, cols) ==
    IF cols = <<>> THEN None
    ELSE LET c   == Head(cols)
             got == IF c \in DOMAIN row /\ notna(row[c])
                    THEN Float(ReplaceComma(row[c])) ELSE None
         IN  IF got # None THEN got ELSE FirstNumber(row, Tail(cols))

\* v / 100 rounded to two decimals when v > 20, else v
GirthInMeters(v) ==
    IF v > 20 * Scale
    THEN ((2 * v + Scale) \div (2 * Scale)) * (Scale \div 100)
    ELSE v

\* variant: the parsed girth is converted to meters
CirconferenceMeters(row) ==
    LET v == FirstNumber(row, circonference_cols)
    IN  IF v = None THEN None ELSE Some(GirthInMeters(v[1]))

\* the stored girth: the parsed value as it is (field circonference_cm)
Circonference(row) == FirstNumber(row, circonference_cols)

Hauteur(row) == FirstNumber(row, hauteur_cols)

RECURSIVE Remarquable(_, _)
\* the loop for the flag: the first present, non-null candidate decides
Remarquable(row, cols) ==
    IF cols = <<>> THEN None
    ELSE IF Head(cols) \in DOMAIN row /\ notna(row[Head(cols)])
         THEN Some(Lower(Strip(row[Head(cols)])) \in Affirmative)
         ELSE Remarquable(row, Tail(cols))

\* row.to_dict() with NaN turned into None
Raw(row) == [k \in DOMAIN row |-> IF row[k] = NaN THEN None ELSE Some(row[k])]

\* the body of the loop over df.iterrows(): one row -> one record
MapRow(row, source) ==
    [source           |-> source,
     id_source        |-> FirstPresent(row, possible_id),
     commune          |-> FirstPresent(row, possible_city),
     adresse          |-> FirstPresent(row, possible_addr),
     espece           |-> Espece(row),
     hauteur_m        |-> Hauteur(row),
     circonference_cm |-> Circonference(row),
     remarquable      |-> Remarquable(row, remarquable_cols),
     geo              |-> guess_lat_lon(row),
     raw              |-> Raw(row)]

to_common_format(df, source) ==
    LET n == normalize_columns(df)
    IN  [i \in 1..Len(n.rows) |-> MapRow(n.rows[i], source)]

-----------------------------------------------------------------------------
(* unify_arbres.main: the notable filter of the paris table *)

\* Series.astype(str): a missing cell becomes the text "nan"
AsStr(cell) == IF cell = NaN THEN <<"n","a","n">> ELSE cell

\* the list given to isin() in main
MainAffirmative == { <<"1">>, <<"t","r","u","e">>, <<"o","u","i">>, <<"y","e","s">> }

\* tmp[tmp["remarquable"].astype(str).str.lower().isin([...])]
NotableRows(tmp) ==
    LET Keep(row) == Lower(AsStr(row["remarquable"])) \in MainAffirmative
    IN  [cols |-> tmp.cols, rows |-> SelectSeq(tmp.rows, Keep)]

\* tmp = normalize_columns(df_paris); filtered when the column exists
NotableFilter(df) ==
    LET tmp == normalize_columns(df)
    IN  IF "remarquable" \in tmp.cols THEN NotableRows(tmp) ELSE df

\* variant: the two extend() calls in the other order
AllRecordsHdsFirst(dfp, dfh) ==
    to_common_format(dfh, "hauts-de-seine") \o to_common_format(dfp, "paris")

\* all_records after the two extend() calls
AllRecords(dfp, dfh) ==
    to_common_format(dfp, "paris") \o to_common_format(dfh, "hauts-de-seine")

-----------------------------------------------------------------------------
(* import_arbres.main: the storage operations *)

\* insert_many gives each document a fresh ObjectId, in sequence order
NewDocs(recs, oid) == [i \in 1..Len(recs) |-> [oid |-> oid + i - 1, body |-> recs[i]]]

Bodies(coll) == [i \in 1..Len(coll) |-> coll[i].body]

-----------------------------------------------------------------------------
(* Input universe *)

MaxRows == 2

MaxPrior == 1

MaxRuns == 2

T_OUI == <<"O","U","I">>

T_NON == <<"N","O","N">>

T_vrai == <<"v","r","a","i">>

T_abc == <<"a","b","c">>

T_305 == <<"3","0","5">>

T_3c05 == <<"3",",","0","5">>

T_20 == <<"2","0">>

T_21 == <<"2","1">>

T_12c5 == <<"1","2",",","5">>

T_12 == <<"1","2">>

T_LatLon == <<"4","8",".","8","5","6","6",","," ","2",".","3","5","2","2">>

T_LonLat == <<"2",".","3","5","2","2",","," ","4","8",".","8","5","6","6">>

T_120_45 == <<"1","2","0",","," ","4","5">>

T_50_200 == <<"5","0",",","2","0","0">>

T_abc_2 == <<"a","b","c",",","2">>

T_48d85 == <<"4","8",".","8","5">>

T_123 == <<"1","2","3",".","0">>

T_2d35 == <<"2",".","3","5">>

T_200 == <<"2","0","0">>

T_7 == <<"7">>

T_1 == <<"1">>

T_True == <<"T","r","u","e">>

T_yes == <<"y","e","s">>

T_sp_oui == <<" ","o","u","i">>

T_Chene == <<"C","h","e","n","e">>

T_Quercus == <<" ","Q","u","e","r","c","u","s">>

\* rows of the paris export used for the batch runs: with a flag column
\* (header "Remarquable"), or without one
ParisFlagRows == [Remarquable : {T_OUI, T_NON, T_vrai}]

ParisPlainRows == [id : {T_7}]

HdsRows == [remarquable : {T_NON, T_OUI}]

\* rows used one at a time to exercise the mapper
NumberRows == [HAUTEUR : {NaN, T_abc, T_12c5}, hauteur_m : {NaN, T_12},
               circonference : {NaN, T_abc, T_305, T_3c05, T_20, T_21},
               circonference_cm : {NaN, T_305}]

GeoRows == [geo_point_2d : {NaN, T_LatLon, T_LonLat, T_120_45, T_50_200, T_abc_2, T_48d85},
            coordonnees : {NaN, T_120_45},
            lat : {NaN, T_48d85, T_123, T_abc}, latitude : {NaN, T_48d85},
            lon : {NaN, T_2d35, T_200}]

TextRows == [id : {NaN, T_7}, objectid : {T_12}, commune : {NaN, T_abc},
             libellefrancais : {NaN, T_Chene}, genre : {NaN, T_Quercus, T_Chene},
             statut : {NaN, T_OUI, T_abc}]

RichRows == NumberRows \cup GeoRows \cup TextRows

\* paris rows used one at a time to exercise the notable filter
FlagRows == [Remarquable : {NaN, T_1, T_True, T_yes, T_sp_oui}, id : {T_7}]

Tables(cols, rows, n) ==
    {[cols |-> cols, rows |-> r] : r \in UNION {[1..k -> rows] : k \in 0..n}}

ParisTables == Tables({"Remarquable"}, ParisFlagRows, MaxRows)
               \cup Tables({"id"}, ParisPlainRows, MaxRows)

HdsTables == Tables({"remarquable"}, HdsRows, MaxRows)

NoTable == [cols |-> {}, rows |-> <<>>]

\* records left by an earlier run of the pipeline
OldRecord(id) ==
    [source |-> "hauts-de-seine", id_source |-> Some(id),
     commune |-> None, adresse |-> None, espece |-> None,
     hauteur_m |-> None, circonference_cm |-> None, remarquable |-> None,
     geo |-> [lat |-> None, lon |-> None],
     raw |-> [k \in {"id"} |-> Some(id)]]

OldRecords == <<OldRecord(T_12), OldRecord(T_7)>>

\* the collection as an earlier load left it: the first k old records
PriorCollection(k) == [i \in 1..k |-> [oid |-> i, body |-> OldRecords[1 + ((i - 1) % 2)]]]

\* what earlier runs left behind: no interchange file and up to MaxPrior
\* documents, or the old interchange file and MaxPrior documents
Leftovers ==
    {[file |-> None, coll |-> PriorCollection(k)] : k \in 0..MaxPrior}
    \cup {[file |-> Some(OldRecords), coll |-> PriorCollection(MaxPrior)]}

-----------------------------------------------------------------------------
(* State machine *)

Terminal == {"idle", "u_done", "u_raised", "l_done", "l_raised"}

InitCommon ==
    /\ pc = "idle"
    /\ df_paris = NoTable
    /\ df_hds = NoTable
    /\ all_records = <<>>
    /\ arbres = <<>>
    /\ printed = None
    /\ raised = ""
    /\ runs = 0
    /\ next_oid = Len(collection) + 1
    /\ csv_reads = 0
    /\ db_ops = 0
    /\ fs_before = <<out_dir, out_file>>
    /\ coll_before = collection
    /\ loaded = None

\* batch inputs: small tables, either file possibly missing, a collection and
\* an interchange file possibly left by an earlier run
InitBatch ==
    /\ paris_file \in {None} \cup {Some(t) : t \in ParisTables}
    /\ hds_file \in {None} \cup {Some(t) : t \in HdsTables}
    /\ \E l \in Leftovers : out_file = l.file /\ collection = l.coll
    /\ out_dir = (out_file # None)
    /\ InitCommon

\* mapper inputs: one row in the hauts-de-seine table beside a header-only
\* paris table, or one flagged row in the paris table beside a header-only
\* hauts-de-seine table
InitRows ==
    /\ \/ /\ paris_file = Some([cols |-> {"id"}, rows |-> <<>>])
          /\ hds_file \in {Some([cols |-> DOMAIN r, rows |-> <<r>>]) : r \in RichRows}
       \/ /\ paris_file \in {Some([cols |-> DOMAIN r, rows |-> <<r>>]) : r \in FlagRows}
          /\ hds_file = Some([cols |-> {"id"}, rows |-> <<>>])
    /\ out_file = None
    /\ out_dir = FALSE
    /\ collection = <<>>
    /\ InitCommon

Init == InitBatch \/ InitRows

StartRun(first) ==
    /\ pc \in Terminal
    /\ runs < MaxRuns
    /\ pc' = first
    /\ runs' = runs + 1
    /\ df_paris' = NoTable
    /\ df_hds' = NoTable
    /\ all_records' = <<>>
    /\ arbres' = <<>>
    /\ printed' = None
    /\ raised' = ""
    /\ csv_reads' = 0
    /\ db_ops' = 0
    /\ fs_before' = <<out_dir, out_file>>
    /\ coll_before' = collection
    /\ UNCHANGED <<paris_file, hds_file, out_dir, out_file, collection, next_oid,
                   loaded>>

Raise(exc, at) ==
    /\ raised' = exc
    /\ pc' = at

(* ---- unify_arbres.main ---- *)

UnifyStart == StartRun("u_check_paris")

UnifyCheckParis ==
    /\ pc = "u_check_paris"
    /\ \/ paris_file = None /\ Raise("FileNotFoundError", "u_raised")
       \/ paris_file # None /\ pc' = "u_check_hds" /\ UNCHANGED raised
    /\ UNCHANGED <<paris_file, hds_file, out_dir, out_file, collection, df_paris,
                   df_hds, all_records, arbres, printed, runs, next_oid,
                   csv_reads, db_ops, fs_before, coll_before, loaded>>

\* variant: data/ is created before the second existence check
UnifyCheckHdsAfterMkdir ==
    /\ pc = "u_check_hds"
    /\ out_dir' = TRUE
    /\ \/ hds_file = None /\ Raise("FileNotFoundError", "u_raised")
       \/ hds_file # None /\ pc' = "u_read" /\ UNCHANGED raised
    /\ UNCHANGED <<paris_file, hds_file, out_file, collection, df_paris,
                   df_hds, all_records, arbres, printed, runs, next_oid,
                   csv_reads, db_ops, fs_before, coll_before, loaded>>

UnifyCheckHds ==
    /\ pc = "u_check_hds"
    /\ \/ hds_file = None /\ Raise("FileNotFoundError", "u_raised")
       \/ hds_file # None /\ pc' = "u_read" /\ UNCHANGED raised
    /\ UNCHANGED <<paris_file, hds_file, out_dir, out_file, collection, df_paris,
                   df_hds, all_records, arbres, printed, runs, next_oid,
                   csv_reads, db_ops, fs_before, coll_before, loaded>>

UnifyRead ==
    /\ pc = "u_read"
    /\ df_paris' = paris_file[1]
    /\ df_hds' = hds_file[1]
    /\ csv_reads' = csv_reads + 2
    /\ pc' = "u_filter"
    /\ UNCHANGED <<paris_file, hds_file, out_dir, out_file, collection,
                   all_records, arbres, printed, raised, runs, next_oid,
                   db_ops, fs_before, coll_before, loaded>>

UnifyFilter ==
    /\ pc = "u_filter"
    /\ df_paris' = NotableFilter(df_paris)
    /\ pc' = "u_mkdir"
    /\ UNCHANGED <<paris_file, hds_file, out_dir, out_file, collection, df_hds,
                   all_records, arbres, printed, raised, runs, next_oid,
                   csv_reads, db_ops, fs_before, coll_before, loaded>>

UnifyMkdir ==
    /\ pc = "u_mkdir"
    /\ out_dir' = TRUE
    /\ pc' = "u_convert"
    /\ UNCHANGED <<paris_file, hds_file, out_file, collection, df_paris, df_hds,
                   all_records, arbres, printed, raised, runs, next_oid,
                   csv_reads, db_ops, fs_before, coll_before, loaded>>

UnifyConvert ==
    /\ pc = "u_convert"
    /\ all_records' = AllRecords(df_paris, df_hds)
    /\ pc' = "u_write"
    /\ UNCHANGED <<paris_file, hds_file, out_dir, out_file, collection, df_paris,
                   df_hds, arbres, printed, raised, runs, next_oid,
                   csv_reads, db_ops, fs_before, coll_before, loaded>>

UnifyWrite ==
    /\ pc = "u_write"
    /\ out_file' = Some(all_records)
    /\ printed' = Some(Len(all_records))
    /\ pc' = "u_done"
    /\ UNCHANGED <<paris_file, hds_file, out_dir, collection, df_paris, df_hds,
                   all_records, arbres, raised, runs, next_oid,
                   csv_reads, db_ops, fs_before, coll_before, loaded>>

(* ---- import_arbres.main ---- *)

\* get_collection() builds a lazy client: nothing is sent yet
LoadStart == StartRun("l_check")

LoadCheckFile ==
    /\ pc = "l_check"
    /\ \/ out_file = None /\ Raise("FileNotFoundError", "l_raised")
       \/ out_file # None /\ pc' = "l_read" /\ UNCHANGED raised
    /\ UNCHANGED <<paris_file, hds_file, out_dir, out_file, collection, df_paris,
                   df_hds, all_records, arbres, printed, runs, next_oid,
                   csv_reads, db_ops, fs_before, coll_before, loaded>>

LoadRead ==
    /\ pc = "l_read"
    /\ arbres' = out_file[1]
    /\ pc' = "l_delete"
    /\ UNCHANGED <<paris_file, hds_file, out_dir, out_file, collection, df_paris,
                   df_hds, all_records, printed, raised, runs, next_oid,
                   csv_reads, db_ops, fs_before, coll_before, loaded>>

\* variant: the delete is issued with a filter that matches nothing
LoadDeleteKeeps ==
    /\ pc = "l_delete"
    /\ db_ops' = db_ops + 1
    /\ pc' = "l_insert"
    /\ UNCHANGED <<paris_file, hds_file, out_dir, out_file, collection, df_paris,
                   df_hds, all_records, arbres, printed, raised, runs, next_oid,
                   csv_reads, fs_before, coll_before, loaded>>

\* collection.delete_many({}): everything goes, or the call fails after
\* removing some k documents and the error propagates
LoadDelete ==
    /\ pc = "l_delete"
    /\ db_ops' = db_ops + 1
    /\ \/ collection' = <<>> /\ pc' = "l_insert" /\ UNCHANGED raised
       \/ /\ \E k \in 0..Len(collection) :
                 collection' = SubSeq(collection, k + 1, Len(collection))
          /\ Raise("PyMongoError", "l_raised")
    /\ UNCHANGED <<paris_file, hds_file, out_dir, out_file, df_paris, df_hds,
                   all_records, arbres, printed, runs, next_oid,
                   csv_reads, fs_before, coll_before, loaded>>

\* variant: a failed insert puts the earlier documents back
LoadInsertRollback ==
    /\ pc = "l_insert"
    /\ \/ /\ arbres = <<>>
          /\ Raise("TypeError", "l_raised")
          /\ UNCHANGED <<collection, next_oid, db_ops>>
       \/ /\ arbres # <<>>
          /\ collection' = collection \o NewDocs(arbres, next_oid)
          /\ next_oid' = next_oid + Len(arbres)
          /\ db_ops' = db_ops + 1
          /\ pc' = "l_print"
          /\ UNCHANGED raised
       \/ /\ arbres # <<>>
          /\ collection' = coll_before
          /\ next_oid' = next_oid + Len(arbres)
          /\ db_ops' = db_ops + 1
          /\ Raise("BulkWriteError", "l_raised")
    /\ UNCHANGED <<paris_file, hds_file, out_dir, out_file, df_paris, df_hds,
                   all_records, arbres, printed, runs,
                   csv_reads, fs_before, coll_before, loaded>>

\* collection.insert_many(arbres), ordered: an empty list is refused before
\* anything is sent; otherwise all documents go in, or the call fails after
\* inserting the first k and the error propagates
LoadInsert ==
    /\ pc = "l_insert"
    /\ \/ /\ arbres = <<>>
          /\ Raise("TypeError", "l_raised")
          /\ UNCHANGED <<collection, next_oid, db_ops>>
       \/ /\ arbres # <<>>
          /\ collection' = collection \o NewDocs(arbres, next_oid)
          /\ next_oid' = next_oid + Len(arbres)
          /\ db_ops' = db_ops + 1
          /\ pc' = "l_print"
          /\ UNCHANGED raised
       \/ /\ arbres # <<>>
          /\ \E k \in 0..Len(arbres) :
                 /\ collection' = collection \o NewDocs(SubSeq(arbres, 1, k), next_oid)
                 /\ next_oid' = next_oid + k
          /\ db_ops' = db_ops + 1
          /\ Raise("BulkWriteError", "l_raised")
    /\ UNCHANGED <<paris_file, hds_file, out_dir, out_file, df_paris, df_hds,
                   all_records, arbres, printed, runs,
                   csv_reads, fs_before, coll_before, loaded>>

\* print(len(result.inserted_ids))
LoadPrint ==
    /\ pc = "l_print"
    /\ printed' = Some(Len(arbres))
    /\ pc' = "l_done"
    /\ loaded' = Some([R |-> arbres, bodies |-> Bodies(collection)])
    /\ UNCHANGED <<paris_file, hds_file, out_dir, out_file, collection, df_paris,
                   df_hds, all_records, arbres, raised, runs, next_oid,
                   csv_reads, db_ops, fs_before, coll_before>>

Next ==
    \/ UnifyStart
    \/ UnifyCheckParis
    \/ UnifyCheckHds
    \/ UnifyRead
    \/ UnifyFilter
    \/ UnifyMkdir
    \/ UnifyConvert
    \/ UnifyWrite
    \/ LoadStart
    \/ LoadCheckFile
    \/ LoadRead
    \/ LoadDelete
    \/ LoadInsert
    \/ LoadPrint

Spec == Init /\ [][Next]_vars

-----------------------------------------------------------------------------
(* Properties *)

UnifyAfterChecks == {"u_read", "u_filter", "u_mkdir", "u_convert", "u_write", "u_done"}

UnifyPcs == {"u_check_paris", "u_check_hds", "u_raised"} \cup UnifyAfterChecks

LoadPcs == {"l_check", "l_read", "l_delete", "l_insert", "l_print", "l_done", "l_raised"}

Oids(coll) == {coll[i].oid : i \in 1..Len(coll)}

IsPrefix(s, t) == Len(s) <= Len(t) /\ s = SubSeq(t, 1, Len(s))

\* the rows the mapper was given, in the order of the emitted records
InputRows == normalize_columns(df_paris).rows \o normalize_columns(df_hds).rows

Emitted == pc \in {"u_write", "u_done"}

\* the cell of column c of a row, NaN when the column is absent
Cell(row, c) == IF c \in DOMAIN row THEN row[c] ELSE NaN

\* C1: a Loader run that completes holds exactly the records it read, in
\* order, each once, under fresh identifiers; no earlier document survives;
\* the printed count is len(R); and a completed run on the same R as the
\* previous completed run leaves the same contents.
C1_FullReplace ==
    /\ pc \in {"l_print", "l_done"} =>
          /\ arbres = out_file[1]
          /\ Bodies(collection) = arbres
          /\ Cardinality(Oids(collection)) = Len(arbres)
          /\ Oids(collection) \cap Oids(coll_before) = {}
    /\ pc = "l_done" => printed = Some(Len(arbres))
    /\ (pc = "l_print" /\ loaded # None /\ loaded[1].R = arbres) =>
          Bodies(collection) = loaded[1].bodies

\* a second completed load of the same two-or-more records over what the first left
C1_Witness ==
    /\ pc = "l_print"
    /\ loaded # None
    /\ loaded[1].R = arbres
    /\ Len(arbres) >= 2
    /\ coll_before # <<>>

\* C2: a missing source file ends the Normalizer before any CSV is read and
\* with data/ and data/arbres.json as they were; a missing interchange file
\* ends the Loader before any storage operation, the collection unchanged.
C2_FailFast ==
    /\ (pc \in UnifyPcs /\ (paris_file = None \/ hds_file = None)) =>
          /\ pc \notin UnifyAfterChecks
          /\ csv_reads = 0
          /\ <<out_dir, out_file>> = fs_before
    /\ pc = "u_raised" =>
          /\ raised = "FileNotFoundError"
          /\ paris_file = None \/ hds_file = None
    /\ (pc \in LoadPcs /\ out_file = None) =>
          /\ pc \in {"l_check", "l_raised"}
          /\ db_ops = 0
          /\ collection = coll_before
    /\ (pc = "l_raised" /\ out_file = None) => raised = "FileNotFoundError"

\* the second source is missing while the first and an older output exist
C2_Witness ==
    /\ pc = "u_raised"
    /\ paris_file # None
    /\ hds_file = None
    /\ out_file # None

\* C3: the emitted sequence is the retained paris rows, in file order, then
\* all hauts-de-seine rows, in file order, one record per row, each tagged
\* with its source.
C3_OutputOrder ==
    Emitted =>
       LET np == Len(df_paris.rows)
           nh == Len(df_hds.rows)
           pf == normalize_columns(paris_file[1]).rows
           pr == normalize_columns(df_paris).rows
       IN  /\ df_hds = hds_file[1]
           /\ \E f \in [1..np -> 1..Len(pf)] :
                 /\ \A i, j \in 1..np : i < j => f[i] < f[j]
                 /\ \A i \in 1..np : pr[i] = pf[f[i]]
           /\ Len(all_records) = np + nh
           /\ \A i \in 1..np :
                 /\ all_records[i].source = "paris"
                 /\ all_records[i].raw = Raw(pr[i])
           /\ \A i \in 1..nh :
                 /\ all_records[np + i].source = "hauts-de-seine"
                 /\ all_records[np + i].raw = Raw(normalize_columns(df_hds).rows[i])
           /\ pc = "u_done" => out_file = Some(all_records)

\* one paris row dropped, one kept, two different hauts-de-seine rows
C3_Witness ==
    /\ pc = "u_done"
    /\ Len(df_paris.rows) = 1
    /\ Len(paris_file[1].rows) = 2
    /\ Len(df_hds.rows) = 2
    /\ df_hds.rows[1] # df_hds.rows[2]

\* the first girth candidate column of a row that parses, as a set of at
\* most one index into circonference_cols
FirstParsing(row, cols) ==
    {k \in 1..Len(cols) :
        /\ Float(ReplaceComma(Cell(row, cols[k]))) # None
        /\ \A j \in 1..(k - 1) : Float(ReplaceComma(Cell(row, cols[j]))) = None}

Parsed(row, c) == Float(ReplaceComma(Cell(row, c)))[1]

\* C4 as stated: the girth field is v / 100 rounded to two decimals when
\* v > 20 and v when v <= 20.
C4_AsStated ==
    Emitted =>
       \A i \in 1..Len(InputRows) : \A k \in FirstParsing(InputRows[i], circonference_cols) :
           all_records[i].circonference_cm =
               Some(GirthInMeters(Parsed(InputRows[i], circonference_cols[k])))

\* C4 amended: the girth field is the parsed value v itself, whatever its
\* size: nothing is divided by 100 and nothing is rounded.
C4_GirthUnchanged ==
    Emitted =>
       \A i \in 1..Len(InputRows) : \A k \in FirstParsing(InputRows[i], circonference_cols) :
           all_records[i].circonference_cm =
               Some(Parsed(InputRows[i], circonference_cols[k]))

\* a girth of 305 is emitted as 305
C4_Witness ==
    /\ Emitted
    /\ \E i \in 1..Len(InputRows) :
          /\ Cell(InputRows[i], "circonference") = T_305
          /\ all_records[i].circonference_cm = Some(305 * Scale)

Lat48 == 48 * Scale + 8566 * (Scale \div 10000)

Lon2 == 2 * Scale + 3522 * (Scale \div 10000)

Components(cell) ==
    LET parts == Split(Strip(cell), ",")
    IN  IF cell = NaN \/ Len(parts) < 2 THEN <<None, None>>
        ELSE <<Float(Strip(parts[1])), Float(Strip(parts[2]))>>

HasComponents(cell) == Components(cell)[1] # None /\ Components(cell)[2] # None

CompA(cell) == Components(cell)[1][1]

CompB(cell) == Components(cell)[2][1]

\* the swap condition of the claim
SwapCase(a, b) == ~InLatRange(a) /\ InLatRange(b) /\ InLonRange(a)

\* a combined cell yields a pair under the code's two range tests
Yields(cell) ==
    /\ HasComponents(cell)
    /\ \/ InLatRange(CompA(cell)) /\ InLonRange(CompB(cell))
       \/ InLatRange(CompB(cell)) /\ InLonRange(CompA(cell))

\* the separate columns: the first one of cols whose cell float() accepts
FirstSeparate(row, cols) ==
    LET ks == {k \in 1..Len(cols) :
                  /\ Float(Cell(row, cols[k])) # None
                  /\ \A j \in 1..(k - 1) : Float(Cell(row, cols[j])) = None}
    IN  IF ks = {} THEN None ELSE Float(Cell(row, cols[CHOOSE k \in ks : TRUE]))

\* C6 as stated: the first combined column whose two components parse
\* decides: (lat, lon) = (b, a) in the swap case, (a, b) otherwise; the
\* separate columns are used only when no combined column has two parsed
\* components.
C6_AsStated ==
    Emitted =>
       \A i \in 1..Len(InputRows) :
          LET row == InputRows[i]
              ks  == {k \in 1..Len(GeoCols) :
                         /\ HasComponents(Cell(row, GeoCols[k]))
                         /\ \A j \in 1..(k - 1) : ~HasComponents(Cell(row, GeoCols[j]))}
          IN  /\ \A k \in ks :
                    LET a == CompA(Cell(row, GeoCols[k]))
                        b == CompB(Cell(row, GeoCols[k]))
                    IN  all_records[i].geo =
                           IF SwapCase(a, b) THEN [lat |-> Some(b), lon |-> Some(a)]
                           ELSE [lat |-> Some(a), lon |-> Some(b)]
              /\ ks = {} =>
                    all_records[i].geo = [lat |-> FirstSeparate(row, lat_cols),
                                          lon |-> FirstSeparate(row, lon_cols)]

\* C6 amended: a combined column whose components parse as a, b yields
\* (a, b) when a is in [-90, 90] and b in [-180, 180], (b, a) in the swap
\* case, and no pair when neither holds; the first combined column, in
\* spelling order, that yields a pair decides, and the separate columns are
\* used only when none does.
C6_Disambiguation ==
    Emitted =>
       \A i \in 1..Len(InputRows) :
          LET row == InputRows[i]
              ks  == {k \in 1..Len(GeoCols) :
                         /\ Yields(Cell(row, GeoCols[k]))
                         /\ \A j \in 1..(k - 1) : ~Yields(Cell(row, GeoCols[j]))}
          IN  /\ \A k \in ks :
                    LET a == CompA(Cell(row, GeoCols[k]))
                        b == CompB(Cell(row, GeoCols[k]))
                    IN  all_records[i].geo =
                           IF SwapCase(a, b) THEN [lat |-> Some(b), lon |-> Some(a)]
                           ELSE [lat |-> Some(a), lon |-> Some(b)]
              /\ ks = {} =>
                    all_records[i].geo = [lat |-> FirstSeparate(row, lat_cols),
                                          lon |-> FirstSeparate(row, lon_cols)]

\* "50,200" yields no pair and the next spelling, "120, 45", is swapped
C6_Witness ==
    /\ Emitted
    /\ \E i \in 1..Len(InputRows) :
          /\ Cell(InputRows[i], "geo_point_2d") = T_50_200
          /\ Cell(InputRows[i], "coordonnees") = T_120_45
          /\ all_records[i].geo = [lat |-> Some(45 * Scale), lon |-> Some(120 * Scale)]

\* C7: in every emitted record the latitude is null or within [-90, 90]
\* and the longitude is null or within [-180, 180].
C7_CoordinateRange ==
    Emitted =>
       \A i \in 1..Len(all_records) :
           /\ all_records[i].geo.lat # None => InLatRange(all_records[i].geo.lat[1])
           /\ all_records[i].geo.lon # None => InLonRange(all_records[i].geo.lon[1])

\* the affirmative values of the claim
NotableValues == { <<"o","u","i">>, <<"t","r","u","e">>, <<"1">>,
                   <<"y","e","s">>, <<"v","r","a","i">> }

\* C8: with a flag column, a paris row is retained if and only if its
\* flag, lower-cased, is one of oui, true, 1, yes, vrai; without the column
\* every paris row is retained; hauts-de-seine rows are never filtered.
C8_NotableFilter ==
    pc \in {"u_mkdir", "u_convert", "u_write", "u_done"} =>
       LET pf == normalize_columns(paris_file[1])
           Retained(row) == row["remarquable"] # NaN
                            /\ Lower(row["remarquable"]) \in NotableValues
       IN  /\ "remarquable" \in pf.cols => df_paris.rows = SelectSeq(pf.rows, Retained)
           /\ "remarquable" \notin pf.cols => df_paris.rows = paris_file[1].rows
           /\ df_hds.rows = hds_file[1].rows

\* C9: when the delete succeeded and the bulk insert failed, the run ends
\* with the error raised, nothing printed, no further storage operation,
\* and the collection holds a leading part of the new records and none of
\* the earlier documents.
C9_PartialFailure ==
    (pc = "l_raised" /\ raised = "BulkWriteError") =>
       /\ IsPrefix(Bodies(collection), arbres)
       /\ Oids(collection) \cap Oids(coll_before) = {}
       /\ Cardinality(Oids(collection)) = Len(collection)
       /\ printed = None
       /\ db_ops = 2

\* some but not all records went in, and the earlier documents are gone
C9_Witness ==
    /\ pc = "l_raised"
    /\ raised = "BulkWriteError"
    /\ coll_before # <<>>
    /\ 0 < Len(collection)
    /\ Len(collection) < Len(arbres)

\* the first present, non-null candidate of a row, as a set of at most one index
FirstPresentIx(row, cols) ==
    {k \in 1..Len(cols) :
        /\ Cell(row, cols[k]) # NaN
        /\ \A j \in 1..(k - 1) : Cell(row, cols[j]) = NaN}

\* C10 as stated: each numeric field is the parse of the first present,
\* non-null candidate, null when that value does not parse.
C10_AsStated ==
    Emitted =>
       \A i \in 1..Len(InputRows) :
          /\ \A k \in FirstPresentIx(InputRows[i], hauteur_cols) :
                all_records[i].hauteur_m =
                    Float(ReplaceComma(Cell(InputRows[i], hauteur_cols[k])))
          /\ \A k \in FirstPresentIx(InputRows[i], circonference_cols) :
                all_records[i].circonference_cm =
                    Float(ReplaceComma(Cell(InputRows[i], circonference_cols[k])))

\* C10 amended: each numeric field is the parse ('.' or ',' as separator)
\* of the first candidate, in priority order, that is present, non-null
\* and parses; a value that does not parse is passed over; the field is
\* null only when no candidate parses; every row still gives one record.
C10_FieldResolution ==
    Emitted =>
       /\ Len(all_records) = Len(InputRows)
       /\ \A i \in 1..Len(InputRows) :
             LET row == InputRows[i]
                 hs  == FirstParsing(row, hauteur_cols)
                 cs  == FirstParsing(row, circonference_cols)
             IN  /\ \A k \in hs : all_records[i].hauteur_m = Some(Parsed(row, hauteur_cols[k]))
                 /\ hs = {} => all_records[i].hauteur_m = None
                 /\ \A k \in cs :
                       all_records[i].circonference_cm = Some(Parsed(row, circonference_cols[k]))
                 /\ cs = {} => all_records[i].circonference_cm = None

\* an unparsable height beside a parsable one, and an unparsable girth alone
C10_Witness ==
    /\ Emitted
    /\ \E i \in 1..Len(InputRows) :
          /\ Cell(InputRows[i], "hauteur") = T_abc
          /\ Cell(InputRows[i], "hauteur_m") = T_12
          /\ Cell(InputRows[i], "circonference") = T_abc
          /\ Cell(InputRows[i], "circonference_cm") = NaN
          /\ all_records[i].hauteur_m = Some(12 * Scale)
          /\ all_records[i].circonference_cm = None

====
